---- MODULE Spec2Model ----
(***************************************************************************)
(* A model of archivebox/main.py: the collection operations init, add,     *)
(* remove and update, the index they maintain, the archive folders on      *)
(* disk, and the archiving orchestrator they hand snapshots to.            *)
(*                                                                         *)
(* The operations of main.py are translated from its code.  The helpers it *)
(* imports from archivebox.index, archivebox.parsers and                   *)
(* archivebox.extractors are modelled from their contracts in spec.md.     *)
(***************************************************************************)
EXTENDS Integers, Sequences, FiniteSets, TLC

VARIABLES
    index,      \* the main index: the sequence of Snapshot rows, in query order
    folders,    \* the archive root: directory name -> folder content
    jsonIndex,  \* the deprecated JSON main index: "absent" or its set of entries
    sqlExists,  \* index.sqlite3 exists in the data folder
    stray,      \* the data folder holds files outside ALLOWED_IN_OUTPUT_DIR
    sources,    \* number of write-ahead files in sources/
    clock,      \* wall clock the store takes fresh timestamps from
    op,         \* the operation in progress or last finished, with its arguments
    run,        \* the archiving orchestrator's position in its batch
    fetched,    \* URLs downloaded by the operation (crawl expansion), in order
    invoked,    \* extractor invocations of the operation, in order
    hist,       \* what the operation saw and decided (pre-state, selections)
    calls,      \* number of operations called so far
    report,     \* the status maps the last list_folders or status call returned
    search,     \* the search index: the urls it holds entries for
    htmlIndex   \* index.html exists in the data folder

vars == <<index, folders, jsonIndex, sqlExists, stray, sources, clock, op, run,
          fetched, invoked, hist, calls, report, search, htmlIndex>>

----------------------------------------------------------------------------
(* Bounds of the model. *)

\* largest number of snapshots in the index update selects from
MaxBatch == 3

\* largest number of folders in the archive root when init is first called
MaxFolders == 2

\* largest number of operations called in a behaviour of Spec
MaxOps == 2

None == "None"

\* Optional[float]: <<>> is None, <<x>> is the value x
NoFloat == <<>>

Some(x) == <<x>>

----------------------------------------------------------------------------
(* Strings.  A Python str is a sequence of one-character strings; the      *)
(* characters that occur in timestamps are ordered as their code points.   *)

Alphabet == <<".", "0", "1", "2", "3", "4", "5", "6", "7", "8", "9">>

Ord(c) == CHOOSE i \in 1..Len(Alphabet) : Alphabet[i] = c

DigitChar(d) == Alphabet[d + 2]

DigitVal(c) == Ord(c) - 2

Min(a, b) == IF a <= b THEN a ELSE b

\* Python's str < str: the first differing character decides, and a proper
\* prefix is smaller.
StrLess(a, b) ==
    LET n == Min(Len(a), Len(b))
        diff == {i \in 1..n : a[i] # b[i]}
    IN  IF diff = {} THEN Len(a) < Len(b)
        ELSE LET k == CHOOSE i \in diff : \A j \in diff : i <= j
             IN  Ord(a[k]) < Ord(b[k])

StrGE(a, b) == ~StrLess(a, b)

RECURSIVE NatStr(_)
\* str(n) for a natural number n
NatStr(n) == IF n < 10 THEN <<DigitChar(n)>>
             ELSE NatStr(n \div 10) \o <<DigitChar(n % 10)>>

\* A float is held in tenths: 1005 is 100.5.  str(float) prints the whole
\* part, a point and the fraction ("100.0", "100.5").
FloatStr(r) == NatStr(r \div 10) \o <<".">> \o <<DigitChar(r % 10)>>

RECURSIVE DigitsVal(_)
DigitsVal(s) == IF s = <<>> THEN 0
                ELSE 10 * DigitsVal(SubSeq(s, 1, Len(s) - 1)) + DigitVal(s[Len(s)])

\* float(timestamp), in tenths, for a timestamp with at most one fraction digit
TsValue(s) ==
    LET dots == {i \in 1..Len(s) : s[i] = "."}
    IN  IF dots = {} THEN 10 * DigitsVal(s)
        ELSE LET d == CHOOSE i \in dots : TRUE
             IN  10 * DigitsVal(SubSeq(s, 1, d - 1))
                 + (IF d < Len(s) THEN DigitVal(s[d + 1]) ELSE 0)

----------------------------------------------------------------------------
(* Data model. *)

\* URLs are numbered
Urls == {1, 2, 3}

AllMethods == <<"title", "pdf">>

Range(s) == {s[i] : i \in 1..Len(s)}

NoResult == [status |-> "none", output_path |-> None]

FailedResult == [status |-> "failed", output_path |-> None]

OkResult(p) == [status |-> "succeeded", output_path |-> p]

NoResults == [m \in Range(AllMethods) |-> NoResult]

Snap(u, t) == [url |-> u, timestamp |-> t, results |-> NoResults]

IndexUrls(idx) == {idx[i].url : i \in 1..Len(idx)}

IndexTimestamps(idx) == {idx[i].timestamp : i \in 1..Len(idx)}

\* Snapshot.is_archived: at least one extractor other than title succeeded
IsArchived(s) == \E m \in Range(AllMethods) \ {"title"} : s.results[m].status = "succeeded"

\* the row of the index with this url (the index holds at most one)
RowOf(idx, u) == CHOOSE i \in 1..Len(idx) : idx[i].url = u

SeqsNoDup(S, n) ==
    {s \in UNION {[1..k -> S] : k \in 0..n} : \A i, j \in 1..Len(s) : i # j => s[i] # s[j]}

Perms(S) == {q \in SeqsNoDup(S, Cardinality(S)) : Len(q) = Cardinality(S)}

----------------------------------------------------------------------------
(* Bookkeeping of an operation. *)

NoOp == [name |-> "none", outcome |-> "returned", error |-> None, args |-> <<>>]

Started(nm, a) == [name |-> nm, outcome |-> "running", error |-> None, args |-> a]

Returned(o) == [o EXCEPT !.outcome = "returned"]

\* an ordinary exception propagates to the caller
Raised(o, e) == [o EXCEPT !.outcome = "error", !.error = e]

\* raise SystemExit(code)
Exited(o, code) == [o EXCEPT !.outcome = "exit", !.error = code]

Idle == [active |-> FALSE, batch |-> <<>>, methods |-> <<>>, overwrite |-> FALSE,
         pos |-> 1, mpos |-> 1]

HistOf(idx, fl) ==
    [preIndex |-> idx, preFolders |-> fl, preSources |-> sources, batch |-> <<>>,
     handed |-> <<>>, called |-> FALSE, created |-> <<>>, fixed |-> {}, cant_fix |-> {},
     adopted |-> <<>>, preReport |-> report, preSearch |-> search]

\* no status map has been returned yet
NoReport == [st \in {} |-> <<>>]

\* no operation is executing: the next one may be called
Quiet == op.outcome # "running"

----------------------------------------------------------------------------
(* The archiving orchestrator, archive_snapshots(snapshots, overwrite,     *)
(* methods), from spec.md section 4.2.  It walks the batch in order and,   *)
(* for each snapshot, the requested methods in order.                      *)

Outcomes == {"succeeded", "failed", "timeout"}

\* an invocation that succeeds writes a fresh output
NewPath == "new"

\* methods defaults to the full registered extractor set
MethodsOrDefault(ex) == IF ex = <<>> THEN AllMethods ELSE ex

\* skip the method if it has a recorded succeeded result and overwrite is off
ShouldSkip(prior, ow) == prior.status = "succeeded" /\ ~ow

\* the result recorded after one invocation: a failure or timeout never
\* replaces a recorded success
Recorded(prior, oc, path) ==
    IF oc = "succeeded" THEN OkResult(path)
    ELSE IF prior.status = "succeeded" THEN prior
    ELSE FailedResult

\* an orchestrator that gives the batch up at the first failure
AbortBatch(r) == [r EXCEPT !.pos = Len(r.batch) + 1, !.mpos = 1]

\* what the orchestrator does after a failed or timed-out invocation:
\* it moves on to the next method or snapshot
AfterFailure(r) == r

Advance(r) ==
    IF r.mpos < Len(r.methods) THEN [r EXCEPT !.mpos = r.mpos + 1]
    ELSE [r EXCEPT !.pos = r.pos + 1, !.mpos = 1]

\* write_snapshot_details: the snapshot's folder gets its metadata file
WriteDetails(fl, s) ==
    LET content == [meta |-> [state |-> "ok", url |-> s.url, timestamp |-> s.timestamp],
                    outputs |-> \E m \in Range(AllMethods) : s.results[m].status = "succeeded"]
    IN  [d \in DOMAIN fl \cup {s.timestamp} |-> IF d = s.timestamp THEN content ELSE fl[d]]

\* the batch is handed to the orchestrator
StartArchive(us, ow, ex) ==
    [active |-> TRUE, batch |-> us, methods |-> MethodsOrDefault(ex),
     overwrite |-> ow, pos |-> 1, mpos |-> 1]

\* one (snapshot, method) pair of the batch: skipped, or invoked with some outcome
ArchiveStep ==
    /\ UNCHANGED <<report, search, htmlIndex>>
    /\ run.active
    /\ run.pos <= Len(run.batch)
    /\ LET u == run.batch[run.pos]
           m == run.methods[run.mpos]
           last == run.mpos = Len(run.methods)
       IN  IF u \notin IndexUrls(index) \/ m \notin Range(AllMethods)
           THEN /\ run' = Advance(run)
                /\ UNCHANGED <<index, folders, invoked>>
           ELSE LET k == RowOf(index, u)
                    prior == index[k].results[m]
                IN  IF ShouldSkip(prior, run.overwrite)
                    THEN /\ run' = Advance(run)
                         /\ folders' = IF last THEN WriteDetails(folders, index[k]) ELSE folders
                         /\ UNCHANGED <<index, invoked>>
                    ELSE \E oc \in Outcomes :
                            LET row == [index[k] EXCEPT
                                          !.results[m] = Recorded(prior, oc, NewPath)]
                            IN  /\ invoked' = Append(invoked, <<u, m, oc>>)
                                /\ index' = [index EXCEPT ![k] = row]
                                /\ folders' = IF last THEN WriteDetails(folders, row) ELSE folders
                                /\ run' = IF oc = "succeeded" THEN Advance(run)
                                          ELSE AfterFailure(Advance(run))
    /\ UNCHANGED <<jsonIndex, sqlExists, stray, sources, clock, op, fetched, hist, calls>>

\* archive_snapshots returns; add and update reload the index and return it
ArchiveFinish ==
    /\ UNCHANGED <<report, search, htmlIndex>>
    /\ run.active
    /\ run.pos > Len(run.batch)
    /\ run' = Idle
    /\ op' = Returned(op)
    /\ UNCHANGED <<index, folders, jsonIndex, sqlExists, stray, sources, clock,
                   fetched, invoked, hist, calls>>

----------------------------------------------------------------------------
(* Queries: list_snapshots and list_folders. *)

\* snapshot_filter with filter_type 'exact': the url is one of the patterns
SnapshotFilter(snaps, patterns) ==
    LET Match(s) == s.url \in Range(patterns) IN SelectSeq(snaps, Match)

\* list_snapshots (lines 807-827).  given is the caller's set, or <<>>
\* for None and for an empty set alike ("if snapshots:"); aft and bef
\* are compared by the store as strings: <<>> is None, <<s>> the string s.
ListSnapshots(given, idx, patterns, aft, bef) ==
    LET all == IF given # <<>> THEN given ELSE idx
        LtAfter(s) == StrLess(s.timestamp, aft[1])
        GtBefore(s) == StrLess(bef[1], s.timestamp)
        a == IF aft # <<>> THEN SelectSeq(all, LtAfter) ELSE all
        b == IF bef # <<>> THEN SelectSeq(a, GtBefore) ELSE a
    IN  IF patterns # <<>> THEN SnapshotFilter(b, patterns) ELSE b

\* the statuses whose classifier reads the index alone
IndexStatuses == {"indexed", "archived", "unarchived"}

\* the classifiers of the three statuses that read the index alone,
\* spec.md section 4.1
GetFolders(st, snaps) ==
    LET Archived(s) == IsArchived(s)
        Unarchived(s) == ~IsArchived(s)
    IN  CASE st = "indexed" -> snaps
          [] st = "archived" -> SelectSeq(snaps, Archived)
          [] st = "unarchived" -> SelectSeq(snaps, Unarchived)

StatusNames == {"indexed", "archived", "unarchived", "present", "valid", "invalid",
                "duplicate", "orphaned", "corrupted", "unrecognized"}

\* list_folders (lines 830-852): STATUS_FUNCTIONS[status] raises KeyError,
\* turned into ValueError, for any other status, None included
ListFoldersFails(st) == st \notin StatusNames

\* The enforce_types decorator of lines 806 and 829 is imported from
\* archivebox.util (line 28).  Either it checks an argument against a
\* plain-class annotation such as `filter_type: str` and `status: str`,
\* raising TypeError before the body runs (TRUE), or it lets every
\* argument through to the body (FALSE).
EnforceTypes == BOOLEAN

\* line 806: list_snapshots is called with a filter_type that is not a str
ListSnapshotsRejects(strict, ft) == strict /\ ft = None

\* the error of a failing list_folders: a status that reaches line 850
\* gets the ValueError of line 852; None is stopped before that by a
\* decorator that checks
ListFoldersError(strict, st) ==
    IF strict /\ st = None THEN "TypeError" ELSE "ValueError"

ListFoldersErrors(st) == {ListFoldersError(strict, st) : strict \in EnforceTypes}

----------------------------------------------------------------------------
(* The status classifier, from the table of spec.md section 4.1: the       *)
(* get_*_folders functions of archivebox.index.  A status map is a         *)
(* function from keys (timestamps, which name the folders) to the          *)
(* representative: <<url>>, or <<>> for None.                              *)

FolderWith(mt, out) == [meta |-> mt, outputs |-> out]

MetaParses(fl, d) == fl[d].meta.state = "ok"

\* the representative of a folder: the snapshot its metadata parses to
FolderLink(fl, d) == IF MetaParses(fl, d) THEN <<fl[d].meta.url>> ELSE <<>>

\* indexed, archived, unarchived: keyed by the snapshot's folder
SnapshotMap(snaps) ==
    [d \in IndexTimestamps(snaps) |->
        <<snaps[CHOOSE k \in 1..Len(snaps) : snaps[k].timestamp = d].url>>]

\* present: the directories that exist
PresentDirs(fl) == DOMAIN fl

\* valid: present and indexed, metadata parses and names the directory
ValidDirs(snaps, fl) ==
    {d \in PresentDirs(fl) \cap IndexTimestamps(snaps) :
        MetaParses(fl, d) /\ fl[d].meta.timestamp = d}

\* duplicate: the metadata's url is also the url of another directory's
\* metadata
DuplicateDirs(snaps, fl) ==
    {d \in PresentDirs(fl) :
        /\ MetaParses(fl, d)
        /\ \E e \in PresentDirs(fl) \ {d} :
              MetaParses(fl, e) /\ fl[e].meta.url = fl[d].meta.url}

\* a directory with output files and no metadata file: "partial
\* recognizable output files", no known archive-folder shape
BareWithOutputs(fl, d) == fl[d].meta.state = "none" /\ fl[d].outputs

\* orphaned: present and not indexed.  Section 8 takes the directories
\* with output files and no metadata file out of it: they are unrecognized
OrphanedDirs(snaps, fl) ==
    {d \in PresentDirs(fl) \ IndexTimestamps(snaps) : ~BareWithOutputs(fl, d)}

\* the snapshot of the index a directory is named after has a successful
\* extractor output
HasSuccessfulOutput(snaps, d) ==
    \E k \in 1..Len(snaps) : snaps[k].timestamp = d /\ IsArchived(snaps[k])

\* the criteria of corrupted: present and indexed, and the metadata is
\* missing or unparsable or there is no successful output
CorruptedCriteria(snaps, fl) ==
    {d \in PresentDirs(fl) \cap IndexTimestamps(snaps) :
        ~MetaParses(fl, d) \/ ~HasSuccessfulOutput(snaps, d)}

\* corrupted: orphaned takes precedence
CorruptedDirs(snaps, fl) == CorruptedCriteria(snaps, fl) \ OrphanedDirs(snaps, fl)

\* the criteria of unrecognized: present, no metadata file, output files
UnrecognizedCriteria(snaps, fl) == {d \in PresentDirs(fl) : BareWithOutputs(fl, d)}

\* unrecognized: orphaned and corrupted take precedence
UnrecognizedDirs(snaps, fl) ==
    UnrecognizedCriteria(snaps, fl)
        \ (OrphanedDirs(snaps, fl) \cup CorruptedDirs(snaps, fl))

\* a status map over directories
FolderMap(fl, dirs) == [d \in dirs |-> FolderLink(fl, d)]

\* invalid: the union of duplicate, orphaned, corrupted and unrecognized
InvalidDirs(snaps, fl) ==
    DuplicateDirs(snaps, fl) \cup OrphanedDirs(snaps, fl)
        \cup CorruptedDirs(snaps, fl) \cup UnrecognizedDirs(snaps, fl)

\* the ten classifiers, by the name of the function
Classifier(fn, snaps, fl) ==
    CASE fn = "get_indexed_folders" -> SnapshotMap(GetFolders("indexed", snaps))
      [] fn = "get_archived_folders" -> SnapshotMap(GetFolders("archived", snaps))
      [] fn = "get_unarchived_folders" -> SnapshotMap(GetFolders("unarchived", snaps))
      [] fn = "get_present_folders" -> FolderMap(fl, PresentDirs(fl))
      [] fn = "get_valid_folders" -> FolderMap(fl, ValidDirs(snaps, fl))
      [] fn = "get_invalid_folders" -> FolderMap(fl, InvalidDirs(snaps, fl))
      [] fn = "get_duplicate_folders" -> FolderMap(fl, DuplicateDirs(snaps, fl))
      [] fn = "get_orphaned_folders" -> FolderMap(fl, OrphanedDirs(snaps, fl))
      [] fn = "get_corrupted_folders" -> FolderMap(fl, CorruptedDirs(snaps, fl))
      [] fn = "get_unrecognized_folders" -> FolderMap(fl, UnrecognizedDirs(snaps, fl))

\* the snapshot the index.json of a directory parses to; the results it
\* records are not modelled, the orchestrator reads those of the index row
LinkOfFolder(fl, d) == Snap(fl[d].meta.url, fl[d].meta.timestamp)

\* the values of a status map over directories that are snapshots (line
\* 719: "if link"), in the order of the map, which is the order the
\* operating system lists the directories in: any order
DirLinks(fl, dirs) ==
    {[k \in 1..Len(ord) |-> LinkOfFolder(fl, ord[k])] :
        ord \in Perms({d \in dirs : MetaParses(fl, d)})}

\* the values of the map a classifier returns, as update reads them
ClassifierLinks(fn, snaps, fl) ==
    CASE fn = "get_indexed_folders" -> {GetFolders("indexed", snaps)}
      [] fn = "get_archived_folders" -> {GetFolders("archived", snaps)}
      [] fn = "get_unarchived_folders" -> {GetFolders("unarchived", snaps)}
      [] fn = "get_present_folders" -> DirLinks(fl, PresentDirs(fl))
      [] fn = "get_valid_folders" -> DirLinks(fl, ValidDirs(snaps, fl))
      [] fn = "get_invalid_folders" -> DirLinks(fl, InvalidDirs(snaps, fl))
      [] fn = "get_duplicate_folders" -> DirLinks(fl, DuplicateDirs(snaps, fl))
      [] fn = "get_orphaned_folders" -> DirLinks(fl, OrphanedDirs(snaps, fl))
      [] fn = "get_corrupted_folders" -> DirLinks(fl, CorruptedDirs(snaps, fl))
      [] fn = "get_unrecognized_folders" -> DirLinks(fl, UnrecognizedDirs(snaps, fl))

----------------------------------------------------------------------------
(* The status table of list_folders (lines 836-850). *)

\* lines 836-847: STATUS_FUNCTIONS
StatusFunctions ==
    [st \in StatusNames |->
        CASE st = "indexed" -> "get_indexed_folders"
          [] st = "archived" -> "get_archived_folders"
          [] st = "unarchived" -> "get_unarchived_folders"
          [] st = "present" -> "get_present_folders"
          [] st = "valid" -> "get_valid_folders"
          [] st = "invalid" -> "get_invalid_folders"
          [] st = "duplicate" -> "get_duplicate_folders"
          [] st = "orphaned" -> "get_orphaned_folders"
          [] st = "corrupted" -> "get_corrupted_folders"
          [] st = "unrecognized" -> "get_unrecognized_folders"]

\* line 850: STATUS_FUNCTIONS[status](snapshots, out_dir=out_dir)
ListFoldersResult(st, snaps, fl) == Classifier(StatusFunctions[st], snaps, fl)

\* lines 714-719: all_links, the snapshots of the map list_folders returns
AllLinks(st, snaps, fl) == ClassifierLinks(StatusFunctions[st], snaps, fl)

----------------------------------------------------------------------------
(* update (lines 685-749). *)

\* line 732: link.timestamp >= str(resume), a comparison of two strings
ResumeKeeps(ts, r) == StrGE(ts, FloatStr(r))

\* line 729: "if resume:" is false for None and for 0.0
ResumeGiven(r) == r # NoFloat /\ r[1] # 0

\* lines 728-733: the snapshots update hands over
ToArchive(all_links, new_only, r) ==
    LET new_links == <<>>
        to_archive == IF new_only THEN new_links ELSE all_links
        Keep(s) == ResumeKeeps(s.timestamp, r[1])
    IN  IF ResumeGiven(r) THEN SelectSeq(to_archive, Keep) ELSE to_archive

UrlsOf(snaps) == [i \in 1..Len(snaps) |-> snaps[i].url]

Update(a) ==
    /\ UNCHANGED <<report, search, htmlIndex>>
    /\ Quiet
    /\ sqlExists
    /\ \E strict \in EnforceTypes :
       LET o == Started("update", a)
           matching == ListSnapshots(<<>>, index, a.filter_patterns, a.after, a.before)
           h == HistOf(index, folders)
       IN  IF ListSnapshotsRejects(strict, a.filter_type)
           THEN \* line 707: filter_type=None handed to list_snapshots
                /\ op' = Raised(o, "TypeError")
                /\ hist' = h
                /\ run' = Idle
           ELSE IF ListFoldersFails(a.status)
           THEN \* lines 849-852: KeyError, turned into ValueError
                /\ op' = Raised(o, ListFoldersError(strict, a.status))
                /\ hist' = h
                /\ run' = Idle
           ELSE \E all_links \in AllLinks(a.status, matching, folders) :
                LET before_resume == IF a.only_new THEN <<>> ELSE all_links
                    to_archive == ToArchive(all_links, a.only_new, a.resume)
                IN  IF a.index_only
                    THEN \* line 722 reads all_snapshots, a name update never binds
                         /\ op' = Raised(o, "NameError")
                         /\ hist' = h
                         /\ run' = Idle
                    ELSE IF ResumeGiven(a.resume) /\ to_archive = <<>>
                    THEN \* line 737: nothing found to resume
                         /\ op' = Returned(o)
                         /\ hist' = [h EXCEPT !.batch = before_resume]
                         /\ run' = Idle
                    ELSE /\ op' = o
                         /\ hist' = [h EXCEPT !.batch = before_resume, !.handed = to_archive,
                                                !.called = TRUE]
                         /\ run' = StartArchive(UrlsOf(to_archive), a.overwrite, a.extractors)
    /\ fetched' = <<>>
    /\ invoked' = <<>>
    /\ calls' = calls + 1
    /\ UNCHANGED <<index, folders, jsonIndex, sqlExists, stray, sources, clock>>

----------------------------------------------------------------------------
(* The index store and the importer's helpers, from spec.md sections 3 and *)
(* 4.3: filter_new_urls, write_main_index, the parsers.                    *)

RECURSIVE Dedupe(_)
\* the distinct elements of a sequence, in order of first occurrence
Dedupe(s) ==
    IF s = <<>> THEN <<>>
    ELSE LET front == Dedupe(SubSeq(s, 1, Len(s) - 1))
         IN  IF s[Len(s)] \in Range(front) THEN front ELSE Append(front, s[Len(s)])

\* filter_new_urls: the imported urls with no exact url match in the index,
\* each once
FilterNewUrls(idx, imported) ==
    LET IsNew(u) == u \notin IndexUrls(idx) IN SelectSeq(Dedupe(imported), IsNew)

\* the store's clock reads 100 seconds at tick 0
Now(c) == NatStr(100 + c)

\* the first tick from c on whose timestamp no snapshot holds: the store
\* generates again on a collision
FreshTick(taken, c) ==
    CHOOSE t \in c..(c + Cardinality(taken)) :
        /\ Now(t) \notin taken
        /\ \A t2 \in c..(t - 1) : Now(t2) \in taken

RECURSIVE WriteMainIndex(_, _, _)
\* write_main_index(snapshots): each snapshot is inserted as a new row.  A
\* snapshot that carries a timestamp no row holds keeps it (wanted is <<t>>);
\* otherwise it gets a fresh one from the clock.  Yields the index and clock.
WriteMainIndex(idx, snaps, c) ==
    IF snaps = <<>> THEN [rows |-> idx, ticks |-> c]
    ELSE LET s == Head(snaps)
             taken == IndexTimestamps(idx)
             keep == s.wanted # <<>> /\ s.wanted[1] \notin taken
             t == FreshTick(taken, c)
             row == Snap(s.url, IF keep THEN s.wanted[1] ELSE Now(t))
         IN  WriteMainIndex(Append(idx, row), Tail(snaps), IF keep THEN c ELSE t + 1)

\* Snapshot(url=u): a snapshot object that carries no timestamp yet
NewSnapshot(u) == [url |-> u, wanted |-> <<>>]

\* the pages of the web: the urls parse_snapshots_from_source finds in the
\* page downloaded from u
Links(u) == CASE u = 1 -> <<2>> [] u = 2 -> <<3>> [] OTHER -> <<>>

RECURSIVE Crawl(_)
\* lines 577-580: every parsed snapshot is downloaded and parsed, in order
Crawl(us) == IF us = <<>> THEN <<>> ELSE Links(Head(us)) \o Crawl(Tail(us))

----------------------------------------------------------------------------
(* add (lines 539-604): its assertion and its hand-over. *)

\* a depth outside (0, 1) that slips through the assertion
DepthAllowedUpTo2(d) == d \in {0, 1, 2}

\* line 550: assert depth in (0, 1)
DepthAllowed(d) == d \in {0, 1}

\* lines 574-580: the snapshots found one level deeper
NewSnapshotsDepth(us, d) == IF us # <<>> /\ d = 1 THEN Crawl(us) ELSE <<>>

\* lines 577-579: the urls downloaded for the crawl
CrawlFetches(us, d) == IF us # <<>> /\ d = 1 THEN us ELSE <<>>

\* line 583 without the call of filter_new_urls: every imported url is written
NewSnapshotsUnfiltered(all_snapshots, imported) == Dedupe(imported)

\* line 583: new_snapshots = filter_new_urls(all_snapshots, imported_snapshots)
NewSnapshotsOf(all_snapshots, imported) == FilterNewUrls(all_snapshots, imported)

\* lines 597-598 passing overwrite=True whatever the caller asked
AddArchiveCallForcesOverwrite(all_flag, ow, all_snapshots, imported, new) ==
    IF all_flag THEN [called |-> TRUE, batch |-> all_snapshots, overwrite |-> TRUE]
    ELSE IF ow THEN [called |-> TRUE, batch |-> imported, overwrite |-> TRUE]
    ELSE IF new # <<>> THEN [called |-> TRUE, batch |-> new, overwrite |-> FALSE]
    ELSE [called |-> FALSE, batch |-> <<>>, overwrite |-> FALSE]

\* lines 597-598 not forwarding the caller's overwrite
AddArchiveCallDropsOverwrite(all_flag, ow, all_snapshots, imported, new) ==
    IF all_flag THEN [called |-> TRUE, batch |-> all_snapshots, overwrite |-> FALSE]
    ELSE IF ow THEN [called |-> TRUE, batch |-> imported, overwrite |-> TRUE]
    ELSE IF new # <<>> THEN [called |-> TRUE, batch |-> new, overwrite |-> FALSE]
    ELSE [called |-> FALSE, batch |-> <<>>, overwrite |-> FALSE]

\* line 602 handing over everything imported, already indexed or not
AddArchiveCallHandsImported(all_flag, ow, all_snapshots, imported, new) ==
    IF all_flag THEN [called |-> TRUE, batch |-> all_snapshots, overwrite |-> ow]
    ELSE IF ow THEN [called |-> TRUE, batch |-> imported, overwrite |-> TRUE]
    ELSE IF imported # <<>> THEN [called |-> TRUE, batch |-> imported, overwrite |-> FALSE]
    ELSE [called |-> FALSE, batch |-> <<>>, overwrite |-> FALSE]

\* lines 597-602: which snapshots add hands to archive_snapshots, and with
\* which overwrite flag
AddArchiveCall(all_flag, ow, all_snapshots, imported, new) ==
    IF all_flag THEN [called |-> TRUE, batch |-> all_snapshots, overwrite |-> ow]
    ELSE IF ow THEN [called |-> TRUE, batch |-> imported, overwrite |-> TRUE]
    ELSE IF new # <<>> THEN [called |-> TRUE, batch |-> new, overwrite |-> FALSE]
    ELSE [called |-> FALSE, batch |-> <<>>, overwrite |-> FALSE]

----------------------------------------------------------------------------
(* Archive folders and the repair engine, from spec.md sections 3 and 4.4: *)
(* fix_invalid_folder_locations, parse_json_snapshot_details,              *)
(* parse_json_main_index.                                                  *)

NoMeta == [state |-> "none", url |-> 0, timestamp |-> <<>>]

CorruptMeta == [state |-> "corrupt", url |-> 0, timestamp |-> <<>>]

OkMeta(u, t) == [state |-> "ok", url |-> u, timestamp |-> t]

Folder(mt) == [meta |-> mt, outputs |-> TRUE]

\* the folder's metadata file parses and names another timestamp than the
\* directory does
Misplaced(fl, d) == fl[d].meta.state = "ok" /\ fl[d].meta.timestamp # d

Renamed(fl, d, dest) ==
    [x \in (DOMAIN fl \ {d}) \cup {dest} |-> IF x = dest THEN fl[d] ELSE fl[x]]

\* one folder of the repair: renamed to its metadata's timestamp when that
\* name is free, recorded as a conflict and left alone when it is taken
RepairOne(r, d) ==
    IF d \notin DOMAIN r.tree \/ ~Misplaced(r.tree, d) THEN r
    ELSE LET dest == r.tree[d].meta.timestamp
         IN  IF dest \in DOMAIN r.tree
             THEN [r EXCEPT !.cant_fix = @ \cup {<<d, dest>>}]
             ELSE [r EXCEPT !.tree = Renamed(r.tree, d, dest), !.fixed = @ \cup {<<d, dest>>}]

RECURSIVE RepairAll(_, _)
RepairAll(r, ord) ==
    IF ord = <<>> THEN r ELSE RepairAll(RepairOne(r, Head(ord)), Tail(ord))

\* the directories the repair acts on, and the ones the parser yields a
\* snapshot for; the order the operating system lists the others in changes
\* nothing
MisplacedDirs(fl) == {d \in DOMAIN fl : Misplaced(fl, d)}

ParsableDirs(fl) == {d \in DOMAIN fl : fl[d].meta.state = "ok"}

\* fix_invalid_folder_locations: the directories are visited in the order
\* ord the operating system lists them in
FixInvalidFolderLocations(fl, ord) ==
    RepairAll([tree |-> fl, fixed |-> {}, cant_fix |-> {}], ord)

\* parse_json_snapshot_details: one snapshot per folder whose metadata parses
ParseJsonSnapshotDetails(fl, ord) ==
    LET Parses(d) == fl[d].meta.state = "ok"
        dirs == SelectSeq(ord, Parses)
    IN  [k \in 1..Len(dirs) |-> [url |-> fl[dirs[k]].meta.url,
                                   wanted |-> <<fl[dirs[k]].meta.timestamp>>]]

\* parse_json_main_index: the entries of the JSON index, if the file exists
ParseJsonMainIndex(json) == IF json.exists THEN json.entries ELSE {}

----------------------------------------------------------------------------
(* init (lines 265-415). *)

\* {snapshot.url: snapshot for snapshot in ...}: one value per url, the last
\* one seen, at the position of the first
DictByUrl(snaps) ==
    LET keys == Dedupe([k \in 1..Len(snaps) |-> snaps[k].url])
        LastOf(u) == CHOOSE k \in 1..Len(snaps) :
                        /\ snaps[k].url = u
                        /\ \A k2 \in (k + 1)..Len(snaps) : snaps[k2].url # u
    IN  [n \in 1..Len(keys) |-> snaps[LastOf(keys[n])]]

\* lines 269-298: init refuses a folder that holds files and no index.sqlite3,
\* unless forced
InitRefused(hasStray, hasIndex, forced) == hasStray /\ ~hasIndex /\ ~forced

\* init going on without the repair of line 346
InitRepairSkipped(fl, ord) == [tree |-> fl, fixed |-> {}, cant_fix |-> {}]

\* line 346: fixed, cant_fix = fix_invalid_folder_locations(out_dir=out_dir)
InitRepair(fl, ord) == FixInvalidFolderLocations(fl, ord)

\* lines 363-367 taking every parsed folder, indexed url or not
OrphanedDataDirSnapshotsAll(all_snapshots, parsed) == DictByUrl(parsed)

\* lines 363-367: the parsed folders whose url the main index does not hold,
\* keyed by url
OrphanedDataDirSnapshots(all_snapshots, parsed) ==
    LET NotIndexed(x) == x.url \notin IndexUrls(all_snapshots)
    IN  DictByUrl(SelectSeq(parsed, NotIndexed))

\* lines 353-357: the condition reads link.url, and init binds no name link:
\* evaluating it for the first entry of the JSON index raises NameError
OrphanedJsonRaises(json) == ParseJsonMainIndex(json) # {}

\* lines 408-414: index.json and index.html are renamed to
\* f"{date.today()}_index_old" names, which are relative to the working
\* directory: run from the data folder they stay in it, under names that
\* are not in ALLOWED_IN_OUTPUT_DIR
RenameLeavesStray(inData, hasJson, hasHtml) == inData /\ (hasJson \/ hasHtml)

\* line 314: write_config_file({}, out_dir=out_dir), imported from
\* archivebox.config (line 90), writes CONFIG_FILE: into the data folder
\* (TRUE), where it is a file outside ALLOWED_IN_OUTPUT_DIR (lines
\* 119-137), or elsewhere (FALSE)
ConfigFileInOutDir == BOOLEAN

\* what a call of init does to the data folder, from the current state:
\* how it ends and what it leaves
InitResults(a) ==
    LET existing_index == sqlExists
        untouched == [ended |-> "exit", why |-> "SystemExit(2)", rows |-> index,
                      tree |-> folders, jsonLeft |-> jsonIndex, sqlMade |-> sqlExists,
                      ticks |-> clock, strayLeft |-> stray, htmlLeft |-> htmlIndex,
                      fixed |-> {}, cant_fix |-> {}, created |-> <<>>]
    IN  IF InitRefused(stray, existing_index, a.force)
        THEN {untouched}
        ELSE UNION {
               LET all_snapshots == IF existing_index THEN index ELSE <<>>
                   repaired == InitRepair(folders, ord)
                   begun == [untouched EXCEPT !.sqlMade = TRUE, !.tree = repaired.tree,
                                              !.rows = all_snapshots,
                                              !.strayLeft = stray \/ conf,
                                              !.fixed = repaired.fixed,
                                              !.cant_fix = repaired.cant_fix]
               IN  IF OrphanedJsonRaises(jsonIndex)
                   THEN {[begun EXCEPT !.ended = "error", !.why = "NameError"]}
                   ELSE {LET parsed == ParseJsonSnapshotDetails(repaired.tree, ord2)
                             pending == OrphanedDataDirSnapshots(all_snapshots, parsed)
                             written == WriteMainIndex(all_snapshots, pending, clock)
                         IN  [begun EXCEPT
                                !.ended = "returned", !.why = None,
                                !.rows = written.rows, !.ticks = written.ticks,
                                !.created = [k \in 1..Len(pending) |-> pending[k].url],
                                !.jsonLeft = [jsonIndex EXCEPT !.exists = FALSE],
                                !.htmlLeft = FALSE,
                                !.strayLeft = begun.strayLeft
                                                \/ RenameLeavesStray(a.cwd_is_out_dir,
                                                                     jsonIndex.exists,
                                                                     htmlIndex)]
                           : ord2 \in Perms(ParsableDirs(repaired.tree))}
               : ord \in Perms(MisplacedDirs(folders)), conf \in ConfigFileInOutDir}

Init(a) ==
    /\ UNCHANGED <<report, search, sources>>
    /\ Quiet
    /\ calls' = calls + 1
    /\ fetched' = <<>>
    /\ invoked' = <<>>
    /\ run' = Idle
    /\ \E r \in InitResults(a) :
          /\ op' = [Started("init", a) EXCEPT !.outcome = r.ended, !.error = r.why]
          /\ hist' = [HistOf(index, folders) EXCEPT !.fixed = r.fixed,
                                                   !.cant_fix = r.cant_fix,
                                                   !.created = r.created]
          /\ index' = r.rows
          /\ folders' = r.tree
          /\ jsonIndex' = r.jsonLeft
          /\ sqlExists' = r.sqlMade
          /\ clock' = r.ticks
          /\ stray' = r.strayLeft
          /\ htmlIndex' = r.htmlLeft

InitArgs(forced, inData) == [force |-> forced, cwd_is_out_dir |-> inData]

----------------------------------------------------------------------------
(* add (lines 539-604), from the import on; and oneshot (lines 518-536). *)

\* the part of add after the depth assertion and the init of lines 554-555,
\* on the index idx at the clock clk
AddBody(a, o, h, idx, clk) ==
    LET all_before == idx
        parsed == a.urls
        deeper == NewSnapshotsDepth(parsed, a.depth)
        downloads == CrawlFetches(parsed, a.depth)
        imported == parsed \o deeper
        new_urls == NewSnapshotsOf(all_before, imported)
        written == WriteMainIndex(all_before, [i \in 1..Len(new_urls) |->
                                                 NewSnapshot(new_urls[i])], clk)
        all_after == written.rows
        call == AddArchiveCall(a.update_all, a.overwrite, UrlsOf(all_after),
                               imported, new_urls)
    IN  /\ sources' = sources + 1 + Len(downloads)
        /\ fetched' = downloads
        /\ index' = all_after
        /\ clock' = written.ticks
        /\ hist' = [h EXCEPT !.batch = imported, !.created = new_urls,
                             !.handed = IF a.index_only THEN <<>> ELSE call.batch,
                             !.called = ~a.index_only /\ call.called]
        /\ IF a.index_only \/ ~call.called
           THEN op' = Returned(o) /\ run' = Idle
           ELSE op' = o /\ run' = StartArchive(call.batch, call.overwrite, a.extractors)

Add(a) ==
    /\ UNCHANGED <<report, search>>
    /\ Quiet
    /\ a.init \/ sqlExists
    /\ invoked' = <<>>
    /\ calls' = calls + 1
    /\ LET o == Started("add", a)
           h == HistOf(index, folders)
       IN  IF ~DepthAllowed(a.depth)
           THEN /\ op' = Raised(o, "AssertionError")
                /\ hist' = h
                /\ run' = Idle
                /\ fetched' = <<>>
                /\ UNCHANGED <<index, sources, clock, folders, jsonIndex, sqlExists,
                               stray, htmlIndex>>
           ELSE IF ~a.init
           THEN /\ AddBody(a, o, h, index, clock)
                /\ UNCHANGED <<folders, jsonIndex, sqlExists, stray, htmlIndex>>
           ELSE \* lines 554-555: run_subcommand('init', stdin=None, pwd=out_dir)
                \E r \in InitResults(InitArgs(FALSE, a.cwd_is_out_dir)) :
                   /\ folders' = r.tree
                   /\ jsonIndex' = r.jsonLeft
                   /\ sqlExists' = r.sqlMade
                   /\ stray' = r.strayLeft
                   /\ htmlIndex' = r.htmlLeft
                   /\ IF r.ended # "returned"
                      THEN /\ op' = [o EXCEPT !.outcome = r.ended, !.error = r.why]
                           /\ hist' = [h EXCEPT !.fixed = r.fixed, !.cant_fix = r.cant_fix]
                           /\ run' = Idle
                           /\ fetched' = <<>>
                           /\ index' = r.rows
                           /\ clock' = r.ticks
                           /\ UNCHANGED sources
                      ELSE AddBody(a, o, [h EXCEPT !.fixed = r.fixed,
                                                   !.cant_fix = r.cant_fix,
                                                   !.adopted = r.created],
                                   r.rows, r.ticks)

\* line 532: ignore_methods(['title']), every method but title
IgnoreTitle == SelectSeq(AllMethods, LAMBDA m : m # "title")

OneshotArgs(us, ex) == [urls |-> us, extractors |-> ex]

\* oneshot (lines 518-536).  a.urls is what parse_snapshots_memory finds in
\* the url given: more than one is refused (524-529), none makes line 533
\* index an empty list; the one snapshot is saved (534) and archived (535)
Oneshot(a) ==
    /\ UNCHANGED <<report, search, htmlIndex>>
    /\ Quiet
    /\ invoked' = <<>>
    /\ fetched' = <<>>
    /\ calls' = calls + 1
    /\ LET o == Started("oneshot", a)
           h == HistOf(index, folders)
       IN  IF Len(a.urls) > 1
           THEN /\ op' = Exited(o, "SystemExit(2)")
                /\ hist' = h
                /\ run' = Idle
                /\ UNCHANGED <<index, clock>>
           ELSE IF a.urls = <<>>
           THEN /\ op' = Raised(o, "IndexError")
                /\ hist' = h
                /\ run' = Idle
                /\ UNCHANGED <<index, clock>>
           ELSE LET written == WriteMainIndex(index, <<NewSnapshot(a.urls[1])>>, clock)
                    chosen == IF a.extractors # <<>> THEN a.extractors ELSE IgnoreTitle
                IN  /\ index' = written.rows
                    /\ clock' = written.ticks
                    /\ hist' = [h EXCEPT !.batch = a.urls, !.created = a.urls,
                                         !.handed = a.urls, !.called = TRUE]
                    /\ op' = o
                    /\ run' = StartArchive(a.urls, FALSE, chosen)
    /\ UNCHANGED <<folders, jsonIndex, sqlExists, stray, sources>>

----------------------------------------------------------------------------
(* list_folders (lines 830-852) and status (lines 419-515). *)

ListFoldersArgs(snaps, st) == [snapshots |-> snaps, status |-> st]

ListFolders(a) ==
    /\ Quiet
    /\ sqlExists
    /\ calls' = calls + 1
    /\ hist' = HistOf(index, folders)
    /\ LET o == Started("list_folders", a)
       IN  IF ListFoldersFails(a.status)
           THEN /\ \E err \in ListFoldersErrors(a.status) : op' = Raised(o, err)
                /\ UNCHANGED report
           ELSE /\ op' = Returned(o)
                /\ report' = (a.status :> ListFoldersResult(a.status, a.snapshots, folders))
    /\ UNCHANGED <<index, folders, jsonIndex, sqlExists, stray, sources, clock, run,
                   fetched, invoked, search, htmlIndex>>

\* status with the classifier of line 455 mistaken for the one of line 454
StatusCallsValidAsPresent == [StatusFunctions EXCEPT !["valid"] = "get_present_folders"]

\* status with the classifier of line 463 mistaken for the one of line 461
StatusCallsUnrecognizedAsOrphaned ==
    [StatusFunctions EXCEPT !["unrecognized"] = "get_orphaned_folders"]

\* lines 447-463: the classifier status calls for each count it prints
StatusCalls == StatusFunctions

\* line 464: {**duplicate, **orphaned, **corrupted, **unrecognized}: for a
\* key of several maps the last one's value stays
MergedInvalid(duplicate, orphaned, corrupted, unrecognized) ==
    unrecognized @@ corrupted @@ orphaned @@ duplicate

\* lines 435-464: the maps status computes over the whole main index
StatusReport(snaps, fl) ==
    [st \in StatusNames |->
        IF st = "invalid"
        THEN MergedInvalid(Classifier(StatusCalls["duplicate"], snaps, fl),
                           Classifier(StatusCalls["orphaned"], snaps, fl),
                           Classifier(StatusCalls["corrupted"], snaps, fl),
                           Classifier(StatusCalls["unrecognized"], snaps, fl))
        ELSE Classifier(StatusCalls[st], snaps, fl)]

Status ==
    /\ Quiet
    /\ sqlExists
    /\ calls' = calls + 1
    /\ hist' = HistOf(index, folders)
    /\ op' = Returned(Started("status", <<>>))
    /\ report' = StatusReport(index, folders)
    /\ UNCHANGED <<index, folders, jsonIndex, sqlExists, stray, sources, clock, run,
                   fetched, invoked, search, htmlIndex>>

----------------------------------------------------------------------------
(* remove (lines 607-682). *)

\* a removal that clears the whole archive root
WithoutFoldersAll(fl, snaps) == [d \in {} |-> fl[d]]

\* shutil.rmtree of the snapshot_dir of every matched snapshot
WithoutFolders(fl, snaps) ==
    [d \in DOMAIN fl \ IndexTimestamps(snaps) |-> fl[d]]

\* flush_search_index: the entries of the matched snapshots are dropped
FlushSearchIndex(urlsHeld, snaps) == urlsHeld \ IndexUrls(snaps)

\* remove_from_sql_main_index: the matched rows are deleted
WithoutRows(idx, snaps) ==
    LET Stays(x) == x.url \notin IndexUrls(snaps) IN SelectSeq(idx, Stays)

\* a remove that goes on whatever filters it was given
RemoveRefusedNever(a) == FALSE

\* lines 620-640: the checks remove makes when it is given no snapshot set
RemoveRefused(a) ==
    /\ ~a.snapshots.passed
    /\ \/ a.filter_str # <<>> /\ a.filter_patterns # <<>>
       \/ a.filter_str = <<>> /\ a.filter_patterns = <<>>

\* line 640: the patterns are the lines of filter_str
RemovePatterns(a) ==
    IF ~a.snapshots.passed /\ a.filter_str # <<>> THEN a.filter_str ELSE a.filter_patterns

Remove(a) ==
    /\ UNCHANGED <<report, htmlIndex>>
    /\ Quiet
    /\ sqlExists
    /\ calls' = calls + 1
    /\ fetched' = <<>>
    /\ invoked' = <<>>
    /\ run' = Idle
    /\ LET o == Started("remove", a)
           h == HistOf(index, folders)
           matched == ListSnapshots(a.snapshots.rows, index, RemovePatterns(a),
                                    a.after, a.before)
       IN  IF RemoveRefused(a)
           THEN /\ op' = Exited(o, "SystemExit(2)")
                /\ hist' = h
                /\ UNCHANGED <<index, folders, search>>
           ELSE IF matched = <<>>
           THEN /\ op' = Exited(o, "SystemExit(1)")
                /\ hist' = [h EXCEPT !.called = TRUE]
                /\ UNCHANGED <<index, folders, search>>
           ELSE /\ folders' = IF a.delete THEN WithoutFolders(folders, matched) ELSE folders
                /\ search' = FlushSearchIndex(search, matched)
                /\ index' = WithoutRows(index, matched)
                /\ hist' = [h EXCEPT !.handed = matched, !.called = TRUE]
                /\ op' = Returned(o)
    /\ UNCHANGED <<jsonIndex, sqlExists, stray, sources, clock>>

----------------------------------------------------------------------------
(* SpecResume: update over indexes whose timestamps mix whole-second and   *)
(* fractional forms, as the store holds them.                              *)

TsPool == {NatStr(90), NatStr(100), NatStr(110), FloatStr(1000), FloatStr(1005)}

\* resume thresholds, in tenths: None, 0.0, 90.0, 100.0, 100.5, 110.0
ResumePool == {NoFloat, Some(0), Some(900), Some(1000), Some(1005), Some(1100)}

EmptyFolders == [d \in {} |-> None]

NoJson == [exists |-> FALSE, entries |-> {}]

IndexOfTimestamps(ts) == [i \in 1..Len(ts) |-> Snap(i, ts[i])]

UpdateArgs(r, new_only, io, ow, st, ex, ft) ==
    [resume |-> r, only_new |-> new_only, index_only |-> io,
     overwrite |-> ow, status |-> st, extractors |-> ex, filter_type |-> ft,
     filter_patterns |-> <<>>, after |-> <<>>, before |-> <<>>]

\* update's filter_type: its default None (line 691), or 'exact'
FilterTypes == {None, "exact"}

InitResume ==
    /\ index \in {IndexOfTimestamps(ts) : ts \in SeqsNoDup(TsPool, MaxBatch)}
    /\ folders = EmptyFolders
    /\ jsonIndex = NoJson
    /\ sqlExists = TRUE
    /\ stray = FALSE
    /\ sources = 0
    /\ clock = 0
    /\ op = NoOp
    /\ run = Idle
    /\ fetched = <<>>
    /\ invoked = <<>>
    /\ report = NoReport
    /\ search = IndexUrls(index)
    /\ htmlIndex = FALSE
    /\ hist = HistOf(index, folders)
    /\ calls = 0

UpdateResume ==
    /\ calls = 0
    /\ \E r \in ResumePool, new_only \in BOOLEAN, io \in BOOLEAN,
          st \in {None, "indexed"}, ft \in FilterTypes :
            Update(UpdateArgs(r, new_only, io, FALSE, st, <<"title">>, ft))

NextResume == UpdateResume \/ ArchiveStep \/ ArchiveFinish

SpecResume == InitResume /\ [][NextResume]_vars

HandedSet == Range(hist.handed)

\* C1: whenever update is called with a resume threshold T and does not
\* raise, the snapshots it hands to the orchestrator are exactly those of
\* its batch whose timestamp is numerically >= T.
C1_ResumeSelectsNumericGE ==
    (op.name = "update" /\ op.outcome # "error" /\ op.args.resume # NoFloat)
        => HandedSet = {s \in Range(hist.batch) : TsValue(s.timestamp) >= op.args.resume[1]}

\* C17: when update is called with a resume threshold (above zero), the
\* snapshots it hands to the orchestrator are in ascending order of
\* timestamp, whatever order the index held them in.
C17_ResumeHandsAscending ==
    (op.name = "update" /\ op.args.resume # NoFloat /\ op.args.resume[1] > 0
        /\ hist.called)
        => \A i, j \in 1..Len(hist.handed) :
              i < j => TsValue(hist.handed[i].timestamp) <= TsValue(hist.handed[j].timestamp)

\* C19: an update called with index_only=false and no resume threshold
\* does not fail and hands the orchestrator every snapshot that matches
\* its filters and status (all of the index, with no filter and the status
\* indexed or absent), whatever only_new is.
C19_UpdateHandsEveryMatch ==
    (op.name = "update" /\ ~op.args.index_only /\ op.args.resume = NoFloat)
        => /\ op.outcome # "error"
           /\ hist.called
           /\ hist.handed = hist.preIndex

----------------------------------------------------------------------------
(* SpecArchive: add or update called on a collection and then called a     *)
(* second time with the same arguments, each call followed by the          *)
(* orchestrator's run over the batch it handed over.                       *)

WithResults(s, rt, rp) == [s EXCEPT !.results = [title |-> rt, pdf |-> rp]]

RECURSIVE FoldersOf(_)
\* the folders a collection with this index has: one per archived snapshot
FoldersOf(idx) ==
    IF idx = <<>> THEN EmptyFolders
    ELSE LET s == idx[Len(idx)]
             rest == FoldersOf(SubSeq(idx, 1, Len(idx) - 1))
         IN  IF s.results = NoResults THEN rest ELSE WriteDetails(rest, s)

InitialIndexes ==
    { <<>>,
      <<Snap(1, NatStr(100))>>,
      <<WithResults(Snap(1, NatStr(100)), FailedResult, OkResult("old"))>>,
      <<WithResults(Snap(2, NatStr(101)), OkResult("old"), OkResult("old")),
        Snap(1, FloatStr(1005))>> }

\* the folders the data folder may hold besides those of the indexed
\* snapshots: none, or one whose metadata names a url the index lacks
ArchiveOrphans == {EmptyFolders, (NatStr(103) :> Folder(OkMeta(3, NatStr(103))))}

InitArchive ==
    /\ index \in InitialIndexes
    /\ \E orph \in ArchiveOrphans : folders = FoldersOf(index) @@ orph
    /\ jsonIndex = NoJson
    /\ sqlExists = TRUE
    /\ stray = FALSE
    /\ sources = 0
    /\ clock = 0
    /\ op = NoOp
    /\ run = Idle
    /\ fetched = <<>>
    /\ invoked = <<>>
    /\ report = NoReport
    /\ search = IndexUrls(index)
    /\ htmlIndex = FALSE
    /\ hist = HistOf(index, folders)
    /\ calls = 0

AddArgs(us, d, all_flag, io, ow, ex) ==
    [urls |-> us, depth |-> d, update_all |-> all_flag,
     index_only |-> io, overwrite |-> ow, extractors |-> ex,
     init |-> FALSE, cwd_is_out_dir |-> FALSE]

\* the same add called with init=True, from the data folder or elsewhere
WithInit(a, inData) == [a EXCEPT !.init = TRUE, !.cwd_is_out_dir = inData]

UrlInputs == {<<1>>, <<2>>, <<2, 2>>}

DepthInputs == {0, 1, 2}

AddCall ==
    /\ calls = 0
    /\ \E us \in UrlInputs, d \in DepthInputs, all_flag \in BOOLEAN,
          io \in BOOLEAN, ow \in BOOLEAN, with_init \in BOOLEAN :
            LET a == AddArgs(us, d, all_flag, io, ow, <<"pdf">>)
            IN  Add(IF with_init THEN WithInit(a, FALSE) ELSE a)

\* the same add is run a second time
AddAgain ==
    /\ calls = 1
    /\ op.name = "add"
    /\ Add(op.args)

UpdateCall ==
    /\ calls = 0
    /\ \E ow \in BOOLEAN, ft \in FilterTypes :
          Update(UpdateArgs(NoFloat, FALSE, FALSE, ow, "indexed", <<"pdf">>, ft))

\* the same update is run a second time
UpdateAgain ==
    /\ calls = 1
    /\ op.name = "update"
    /\ Update(op.args)

\* oneshot called on what the parser finds in its url: nothing, one url,
\* two urls
OneshotCall ==
    /\ calls = 0
    /\ \E us \in {<<>>, <<1>>, <<2>>, <<1, 2>>}, ex \in {<<>>, <<"title">>} :
          Oneshot(OneshotArgs(us, ex))

NextArchive ==
    \/ AddCall
    \/ AddAgain
    \/ UpdateCall
    \/ UpdateAgain
    \/ OneshotCall
    \/ ArchiveStep
    \/ ArchiveFinish

SpecArchive == InitArchive /\ [][NextArchive]_vars

----------------------------------------------------------------------------
(* SpecMethods: add or update is called once with its extractors argument *)
(* left at the default "" (lines 545 and 695), so that lines 594-595 and  *)
(* 742-743 pass no methods and the orchestrator runs every method on each *)
(* snapshot of the batch.  Its loop always takes its next step.           *)

AddAllMethods ==
    /\ calls = 0
    /\ \E us \in UrlInputs, all_flag \in BOOLEAN, ow \in BOOLEAN :
          Add(AddArgs(us, 0, all_flag, FALSE, ow, <<>>))

UpdateAllMethods ==
    /\ calls = 0
    /\ \E ow \in BOOLEAN, ft \in FilterTypes :
          Update(UpdateArgs(NoFloat, FALSE, FALSE, ow, "indexed", <<>>, ft))

NextMethods == AddAllMethods \/ UpdateAllMethods \/ ArchiveStep \/ ArchiveFinish

SpecMethods ==
    /\ InitArchive
    /\ [][NextMethods]_vars
    /\ WF_vars(ArchiveStep)
    /\ WF_vars(ArchiveFinish)

----------------------------------------------------------------------------
(* SpecInit: init called once on a data folder in any state: initialised   *)
(* or not, with or without a JSON index, with folders whose metadata is    *)
(* missing, unparsable, well placed or misplaced.                          *)

Dirs == {FloatStr(1000), FloatStr(1005), NatStr(101)}

MetaPool == {NoMeta, CorruptMeta} \cup {OkMeta(u, t) : u \in {1, 2}, t \in Dirs}

FolderStates ==
    UNION {[S -> {Folder(mt) : mt \in MetaPool}] :
             S \in {T \in SUBSET Dirs : Cardinality(T) <= MaxFolders}}

JsonStates ==
    {NoJson, [exists |-> TRUE, entries |-> {}],
     [exists |-> TRUE, entries |-> {[url |-> 3, timestamp |-> NatStr(102)]}]}

\* index.sqlite3 present or not, stray files or not, and the rows of the index
Collections ==
    {[sql |-> FALSE, files |-> FALSE, rows |-> <<>>],
     [sql |-> FALSE, files |-> TRUE, rows |-> <<>>],
     [sql |-> TRUE, files |-> TRUE, rows |-> <<>>],
     [sql |-> TRUE, files |-> FALSE, rows |-> <<Snap(1, FloatStr(1000))>>]}

InitCollections ==
    /\ \E c \in Collections :
          /\ index = c.rows
          /\ sqlExists = c.sql
          /\ stray = c.files
    /\ folders \in FolderStates
    /\ jsonIndex \in JsonStates
    /\ sources = 0
    /\ clock = 0
    /\ op = NoOp
    /\ run = Idle
    /\ fetched = <<>>
    /\ invoked = <<>>
    /\ report = NoReport
    /\ search = IndexUrls(index)
    /\ htmlIndex \in BOOLEAN
    /\ hist = HistOf(index, folders)
    /\ calls = 0


InitCall ==
    /\ calls = 0
    /\ \E forced \in BOOLEAN, inData \in BOOLEAN : Init(InitArgs(forced, inData))

NextInit == InitCall

SpecInit == InitCollections /\ [][NextInit]_vars

----------------------------------------------------------------------------
(* Spec: add, init, update and remove called one after the other, in any   *)
(* order, on an initialised collection that may hold orphaned folders.     *)

\* folders no snapshot of InitialIndexes is named after: none; two with the
\* same url; two whose metadata carries the same timestamp; one whose
\* metadata carries the timestamp of an index row
OrphanSets ==
    {EmptyFolders,
     (NatStr(102) :> Folder(OkMeta(3, NatStr(102))))
        @@ (NatStr(103) :> Folder(OkMeta(3, NatStr(103)))),
     (NatStr(102) :> Folder(OkMeta(3, NatStr(102))))
        @@ (NatStr(103) :> Folder(OkMeta(2, NatStr(102)))),
     (NatStr(102) :> Folder(OkMeta(3, NatStr(100))))}

InitAll ==
    /\ index \in InitialIndexes
    /\ \E orphans \in OrphanSets : folders = FoldersOf(index) @@ orphans
    /\ jsonIndex \in {json \in JsonStates : json.exists => json.entries # {}}
    /\ sqlExists = TRUE
    /\ stray = FALSE
    /\ sources = 0
    /\ clock = 0
    /\ op = NoOp
    /\ run = Idle
    /\ fetched = <<>>
    /\ invoked = <<>>
    /\ report = NoReport
    /\ search = IndexUrls(index)
    \* index.html is read by the renames that end init alone, which init
    \* does not reach when the JSON index has entries
    /\ htmlIndex \in {html \in BOOLEAN : html => ~jsonIndex.exists}
    /\ hist = HistOf(index, folders)
    /\ calls = 0

RemoveArgs(patterns, del) ==
    [snapshots |-> [passed |-> FALSE, rows |-> <<>>], filter_str |-> <<>>,
     filter_patterns |-> patterns, after |-> NoFloat, before |-> NoFloat,
     delete |-> del]

\* add of an indexed url, plain or crawling; of a new url, archived or
\* index_only; of one url given twice
AddOp ==
    /\ calls < MaxOps
    /\ \E us \in {<<1>>, <<3>>, <<2, 2>>}, d \in {0, 1}, io \in BOOLEAN :
          /\ d = 1 => ~io /\ us = <<1>>
          /\ io => us = <<3>>
          /\ Add(AddArgs(us, d, FALSE, io, FALSE, <<"pdf">>))

\* add called with init=True
AddInitOp ==
    /\ calls < MaxOps
    /\ \E inData \in BOOLEAN :
          Add(WithInit(AddArgs(<<3>>, 0, FALSE, FALSE, FALSE, <<"pdf">>), inData))

InitOp ==
    /\ calls < MaxOps
    /\ \E inData \in BOOLEAN : Init(InitArgs(FALSE, inData))

UpdateOp ==
    /\ calls < MaxOps
    /\ \E ft \in FilterTypes, st \in {"indexed", "orphaned"} :
          /\ st = "orphaned" => ft = "exact"
          /\ Update(UpdateArgs(NoFloat, FALSE, FALSE, FALSE, st, <<"pdf">>, ft))

RemoveOp ==
    /\ calls < MaxOps
    /\ \E patterns \in {<<1>>, <<3>>}, del \in BOOLEAN :
          Remove(RemoveArgs(patterns, del))

Next ==
    AddOp \/ AddInitOp \/ InitOp \/ UpdateOp \/ RemoveOp \/ ArchiveStep \/ ArchiveFinish

Spec == InitAll /\ [][Next]_vars

----------------------------------------------------------------------------
(* Properties of add and of the orchestrator, checked under SpecArchive;   *)
(* C7 under SpecMethods.                                                  *)

\* the urls of the snapshots the operation handed to the orchestrator
HandedUrls == IF op.name = "update" THEN UrlsOf(hist.handed) ELSE hist.handed

\* the result recorded for (u, m) when the operation was called
PriorResult(u, m) ==
    IF u \in IndexUrls(hist.preIndex)
    THEN hist.preIndex[RowOf(hist.preIndex, u)].results[m]
    ELSE NoResult

InvokedPairs == {<<invoked[k][1], invoked[k][2]>> : k \in 1..Len(invoked)}

SucceededPairs ==
    {<<invoked[k][1], invoked[k][2]>> : k \in {n \in 1..Len(invoked) : invoked[n][3] = "succeeded"}}

RequestedMethods == IF op.args.extractors = <<>> THEN AllMethods ELSE op.args.extractors

\* C2: add called with a depth other than 0 or 1 fails, and has written no
\* source file, left the index and the folders as they were, fetched no
\* url and invoked no extractor.
C2_BadDepthNoPartialWork ==
    (op.name = "add" /\ op.args.depth \notin {0, 1})
        => /\ op.outcome = "error"
           /\ sources = hist.preSources
           /\ index = hist.preIndex
           /\ folders = hist.preFolders
           /\ fetched = <<>>
           /\ invoked = <<>>
           /\ ~run.active

C2_Witness ==
    /\ op.name = "add"
    /\ op.args.depth = 2
    /\ op.outcome = "error"
    /\ index # <<>>
    /\ calls = 1

\* C3: add keeps every row the index had, in place, and appends a row only
\* for an imported url that had no exact match in the index; when every
\* imported url was indexed already, and in particular when the same add
\* is run a second time, the index has the rows it had.  (The statement as
\* made, for every input of add.)
C3_AddInsertsOnlyUnindexedUrls ==
    (op.name = "add" /\ op.outcome # "error")
        => LET pre == hist.preIndex
               Same(i) == /\ index[i].url = pre[i].url
                          /\ index[i].timestamp = pre[i].timestamp
           IN  /\ Len(index) >= Len(pre)
               /\ \A i \in 1..Len(pre) : Same(i)
               /\ \A i \in (Len(pre) + 1)..Len(index) :
                     /\ index[i].url \notin IndexUrls(pre)
                     /\ index[i].url \in Range(hist.batch)
               /\ Range(hist.batch) \subseteq IndexUrls(pre) => Len(index) = Len(pre)
               /\ calls = 2 => Len(index) = Len(pre)

\* C3, amended: add keeps every row the index had, in place, and appends a
\* row only for a url that had no exact match in the index: first, when
\* called with init=True, one for each orphaned folder that init adopts,
\* then one for each imported url that is still unmatched.  When every
\* imported url was indexed already the rows appended are exactly the
\* adopted ones, none without init=True, and when the same add is run a
\* second time the index has the rows it had.
C3_AddInsertsOnlyUnindexedUrlsBesidesInit ==
    (op.name = "add" /\ op.outcome # "error")
        => LET pre == hist.preIndex
               taken == Len(hist.adopted)
               Same(i) == /\ index[i].url = pre[i].url
                          /\ index[i].timestamp = pre[i].timestamp
           IN  /\ Len(index) >= Len(pre) + taken
               /\ \A i \in 1..Len(pre) : Same(i)
               /\ \A k \in 1..taken : index[Len(pre) + k].url = hist.adopted[k]
               /\ \A i \in (Len(pre) + 1)..Len(index) :
                     /\ index[i].url \notin IndexUrls(pre)
                     /\ i > Len(pre) + taken
                            => /\ index[i].url \in Range(hist.batch)
                               /\ index[i].url \notin Range(hist.adopted)
               /\ \A i, j \in (Len(pre) + 1)..Len(index) :
                     index[i].url = index[j].url => i = j
               /\ Range(hist.batch) \subseteq IndexUrls(pre)
                     => Len(index) = Len(pre) + taken
               /\ ~op.args.init => taken = 0
               /\ calls = 2 => Len(index) = Len(pre)

C3_Witness ==
    /\ op.name = "add"
    /\ op.outcome = "returned"
    /\ op.args.init
    /\ calls = 2
    /\ hist.batch # <<>>
    /\ Len(index) = Len(hist.preIndex)
    /\ Len(index) = 3
    /\ 3 \in IndexUrls(index)

\* an add of an indexed url, called with init=True, after which the index
\* is one row longer: the row of the folder init adopted
C3_WitnessAdopted ==
    /\ op.name = "add"
    /\ op.outcome = "returned"
    /\ op.args.init
    /\ calls = 1
    /\ Range(hist.batch) \subseteq IndexUrls(hist.preIndex)
    /\ hist.adopted = <<3>>
    /\ Len(index) = Len(hist.preIndex) + 1

\* C5: in an add or update called with overwrite=false, no extractor is
\* invoked for a (snapshot, method) pair whose recorded result was
\* succeeded when the operation was called, and none is invoked again
\* after it succeeded.
C5_NoReinvocationOfSucceeded ==
    (op.name \in {"add", "update"} /\ op.args.overwrite = FALSE)
        => /\ \A k \in 1..Len(invoked) :
                 PriorResult(invoked[k][1], invoked[k][2]).status # "succeeded"
           /\ \A k1, k2 \in 1..Len(invoked) :
                 (k1 < k2 /\ invoked[k1][1] = invoked[k2][1] /\ invoked[k1][2] = invoked[k2][2])
                    => invoked[k1][3] # "succeeded"

\* a second run, over a batch whose every requested pair succeeded before,
\* that invoked nothing
C5_Witness ==
    /\ op.name \in {"add", "update"}
    /\ op.args.overwrite = FALSE
    /\ calls = 2
    /\ op.outcome = "returned"
    /\ hist.called
    /\ Len(HandedUrls) = 2
    /\ \A u \in Range(HandedUrls) : PriorResult(u, "pdf").status = "succeeded"
    /\ invoked = <<>>

\* the urls extractors were invoked for
InvokedUrls == {invoked[k][1] : k \in 1..Len(invoked)}

\* C22: in an add called with update_all=false and overwrite=false,
\* extractors are invoked only for snapshots the call created, never for a
\* snapshot that was in the index when it was called; in an add called
\* with index_only=true no extractor is invoked and nothing is handed to
\* the orchestrator, while the new snapshots are in the index once it has
\* returned.
C22_AddArchivesOnlyWhatItCreated ==
    op.name = "add" =>
        /\ (~op.args.update_all /\ ~op.args.overwrite) =>
              /\ InvokedUrls \cap IndexUrls(hist.preIndex) = {}
              /\ InvokedUrls \subseteq Range(hist.created)
        /\ op.args.index_only =>
              /\ invoked = <<>>
              /\ ~run.active
              /\ ~hist.called
              /\ op.outcome = "returned" =>
                    /\ Range(hist.created) \subseteq IndexUrls(index)
                    /\ IndexUrls(index) = IndexUrls(hist.preIndex) \cup Range(hist.created)
                                              \cup Range(hist.adopted)

\* an add without update_all and overwrite imported a url that was indexed
\* but never archived together with a new one, and has returned after
\* invoking extractors
C22_Witness ==
    /\ op.name = "add"
    /\ ~op.args.update_all
    /\ ~op.args.overwrite
    /\ ~op.args.index_only
    /\ op.outcome = "returned"
    /\ invoked # <<>>
    /\ hist.created # <<>>
    /\ \E u \in Range(hist.batch) \cap IndexUrls(hist.preIndex) :
           ~IsArchived(hist.preIndex[RowOf(hist.preIndex, u)])

\* C6: an add or update called with overwrite=true that has returned
\* invoked every requested method once for every snapshot it handed over;
\* and at every moment a result that was succeeded when the operation was
\* called, and whose re-invocations have all failed or timed out, is still
\* recorded as it was, output_path included.
C6_OverwriteReinvokesAndKeepsOldOutput ==
    (op.name \in {"add", "update"} /\ op.args.overwrite = TRUE)
        => /\ (op.outcome = "returned" /\ hist.called)
                 => /\ Len(invoked) = Len(HandedUrls) * Len(RequestedMethods)
                    /\ \A u \in Range(HandedUrls), m \in Range(RequestedMethods) :
                          <<u, m>> \in InvokedPairs
           /\ \A u \in IndexUrls(hist.preIndex), m \in Range(AllMethods) :
                 (PriorResult(u, m).status = "succeeded" /\ <<u, m>> \notin SucceededPairs)
                    => /\ u \in IndexUrls(index)
                       /\ index[RowOf(index, u)].results[m] = PriorResult(u, m)

\* a re-invocation of a succeeded pdf failed, and the old output is recorded
C6_Witness ==
    /\ op.name = "add"
    /\ op.args.overwrite = TRUE
    /\ op.outcome = "returned"
    /\ \E k \in 1..Len(invoked) :
          /\ invoked[k][3] = "failed"
          /\ PriorResult(invoked[k][1], invoked[k][2]) = OkResult("old")
          /\ <<invoked[k][1], invoked[k][2]>> \notin SucceededPairs
          /\ index[RowOf(index, invoked[k][1])].results[invoked[k][2]] = OkResult("old")

\* how many times the operation downloaded u
FetchCount(u) == Cardinality({k \in 1..Len(fetched) : fetched[k] = u})

\* C18: an add with depth=1 downloads each url of its raw input that the
\* index did not hold exactly once, and downloads no url that is not of
\* the raw input (none found only in a downloaded page); with depth=0 it
\* downloads nothing.
C18_OneLevelCrawlOncePerUrl ==
    (op.name = "add" /\ op.outcome # "error")
        => /\ op.args.depth = 1 =>
                 /\ \A u \in Range(op.args.urls) \ IndexUrls(hist.preIndex) :
                       FetchCount(u) = 1
                 /\ Range(fetched) \subseteq Range(op.args.urls)
           /\ op.args.depth = 0 => fetched = <<>>

BatchPositions == {1, 2, 3, 4}

MethodPositions == {1, 2}

\* position (i, j) of the running batch has not been passed
Ahead(i, j) ==
    /\ run.active
    /\ i <= Len(run.batch)
    /\ j <= Len(run.methods)
    /\ run.pos < i \/ (run.pos = i /\ run.mpos <= j)

Reached(i, j) == run.active /\ run.pos = i /\ run.mpos = j

\* the pair at the orchestrator's position is one it does not skip
MustInvoke(i, j) ==
    /\ Reached(i, j)
    /\ i <= Len(run.batch)
    /\ run.batch[i] \in IndexUrls(index)
    /\ ~(index[RowOf(index, run.batch[i])].results[run.methods[j]].status = "succeeded"
          /\ ~run.overwrite)

\* the orchestrator has just invoked the pair at position (i, j)
InvokedAt(i, j) ==
    /\ invoked # <<>>
    /\ i <= Len(run.batch) /\ j <= Len(run.methods)
    /\ invoked[Len(invoked)][1] = run.batch[i]
    /\ invoked[Len(invoked)][2] = run.methods[j]
    /\ IF j < Len(run.methods) THEN run.pos = i /\ run.mpos = j + 1
       ELSE run.pos = i + 1 /\ run.mpos = 1

\* C7: whatever the outcomes of the other invocations, the orchestrator
\* eventually reaches every (snapshot, method) position of its batch, the
\* later methods of a snapshot and the later snapshots, and a pair it
\* reaches and does not skip is eventually invoked.
C7_FailureIsolation ==
    \A i \in BatchPositions, j \in MethodPositions :
        /\ Ahead(i, j) ~> Reached(i, j)
        /\ MustInvoke(i, j) ~> InvokedAt(i, j)

\* both methods of the second snapshot of a batch were invoked although
\* the first method of the first snapshot failed, its second method timed
\* out and the first method of the second snapshot failed as well
C7_Witness ==
    /\ Len(run.batch) = 2
    /\ Len(run.methods) = 2
    /\ Len(invoked) = 4
    /\ invoked[1][1] = invoked[2][1]
    /\ invoked[1][2] # invoked[2][2]
    /\ invoked[1][3] = "failed"
    /\ invoked[2][3] = "timeout"
    /\ invoked[3][1] # invoked[1][1]
    /\ invoked[3][3] = "failed"
    /\ InvokedAt(2, 2)

----------------------------------------------------------------------------
(* SpecRemove: remove called once on a collection, with filters or with a  *)
(* snapshot set of the caller's, with and without delete.                  *)

\* the snapshot sets a caller may pass: none of the index, its first row,
\* all of it
SuppliedSets(idx) ==
    {<<>>, idx} \cup (IF idx = <<>> THEN {} ELSE {<<idx[1]>>})

RemoveInputs(idx) ==
    {[snapshots |-> [passed |-> given, rows |-> IF given THEN these ELSE <<>>],
      filter_str |-> fs, filter_patterns |-> patterns, after |-> aft,
      before |-> bef, delete |-> del] :
        given \in BOOLEAN, these \in SuppliedSets(idx), fs \in {<<>>, <<1>>},
        patterns \in {<<>>, <<1>>, <<3>>}, aft \in {NoFloat, Some(FloatStr(1005))},
        bef \in {NoFloat, Some(FloatStr(1010))}, del \in BOOLEAN}

InitRemove ==
    /\ index \in InitialIndexes
    /\ \E orphans \in OrphanSets : folders = FoldersOf(index) @@ orphans
    /\ jsonIndex = NoJson
    /\ sqlExists = TRUE
    /\ stray = FALSE
    /\ sources = 0
    /\ clock = 0
    /\ op = NoOp
    /\ run = Idle
    /\ fetched = <<>>
    /\ invoked = <<>>
    /\ report = NoReport
    /\ search = IndexUrls(index)
    /\ htmlIndex = FALSE
    /\ hist = HistOf(index, folders)
    /\ calls = 0

RemoveCall ==
    /\ calls = 0
    /\ \E a \in RemoveInputs(index) : Remove(a)

NextRemove == RemoveCall

SpecRemove == InitRemove /\ [][NextRemove]_vars

----------------------------------------------------------------------------
(* SpecClassify: list_folders and status called on collections whose       *)
(* folders are indexed or not, with metadata that is missing, unparsable,  *)
(* well placed or misplaced, with and without output files.                *)

ClassifyContents ==
    {FolderWith(NoMeta, FALSE), FolderWith(NoMeta, TRUE), FolderWith(CorruptMeta, TRUE)}
        \cup {FolderWith(OkMeta(u, t), TRUE) : u \in {1, 2}, t \in {FloatStr(1000), NatStr(101)}}

ClassifyFolders ==
    UNION {[S -> ClassifyContents] :
             S \in {T \in SUBSET Dirs : Cardinality(T) <= MaxFolders}}

ClassifyIndexes ==
    { <<>>,
      <<Snap(1, FloatStr(1000))>>,
      <<WithResults(Snap(1, FloatStr(1000)), OkResult("old"), FailedResult),
        Snap(2, NatStr(101))>> }

InitClassify ==
    /\ index \in ClassifyIndexes
    /\ folders \in ClassifyFolders
    /\ jsonIndex = NoJson
    /\ sqlExists = TRUE
    /\ stray = FALSE
    /\ sources = 0
    /\ clock = 0
    /\ op = NoOp
    /\ run = Idle
    /\ fetched = <<>>
    /\ invoked = <<>>
    /\ report = NoReport
    /\ search = IndexUrls(index)
    /\ htmlIndex = FALSE
    /\ hist = HistOf(index, folders)
    /\ calls = 0

ListFoldersCall ==
    /\ calls = 0
    /\ \E st \in StatusNames \cup {None, "bogus"} :
          ListFolders(ListFoldersArgs(index, st))

StatusCall ==
    /\ calls = 0
    /\ Status

NextClassify == ListFoldersCall \/ StatusCall

SpecClassify == InitClassify /\ [][NextClassify]_vars

----------------------------------------------------------------------------
(* Properties of the status maps, checked under SpecClassify. *)

ReportReady == op.name = "status" /\ op.outcome = "returned"

Keys(st) == DOMAIN report[st]

\* the folders whose index.json parses and names the directory
WellPlacedDirs ==
    {d \in DOMAIN folders : MetaParses(folders, d) /\ folders[d].meta.timestamp = d}

\* the folders with no index.json that no snapshot of the index is named after
BareUnindexedDirs ==
    {d \in DOMAIN folders :
        folders[d].meta.state = "none" /\ d \notin IndexTimestamps(index)}

\* C12: every folder whose index.json parses and whose recorded timestamp
\* is its directory name is in valid, and in neither orphaned nor
\* unrecognized, indexed or not.
C12_WellPlacedIsValid ==
    ReportReady =>
        \A d \in WellPlacedDirs :
            /\ d \in Keys("valid")
            /\ d \notin Keys("orphaned")
            /\ d \notin Keys("unrecognized")

\* C12 as amended: such a folder is in valid and not in orphaned when a
\* snapshot of the index has its timestamp, in orphaned and not in valid
\* when none has, and in unrecognized in neither case.
C12_WellPlacedValidIfIndexedElseOrphaned ==
    ReportReady =>
        \A d \in WellPlacedDirs :
            /\ d \notin Keys("unrecognized")
            /\ IF d \in IndexTimestamps(index)
               THEN d \in Keys("valid") /\ d \notin Keys("orphaned")
               ELSE d \in Keys("orphaned") /\ d \notin Keys("valid")

\* one well placed folder is indexed and another is not
C12_Witness ==
    /\ ReportReady
    /\ \E d, e \in WellPlacedDirs :
          /\ d \in IndexTimestamps(index) /\ d \in Keys("valid")
          /\ e \notin IndexTimestamps(index) /\ e \in Keys("orphaned")

----------------------------------------------------------------------------
(* Properties of remove, checked under SpecRemove. *)

RemoveReturned == op.name = "remove" /\ op.outcome = "returned"

\* the snapshots remove found: what its list_snapshots call returned
Found == Range(hist.handed)

FoundUrls == {s.url : s \in Found}

FoundDirs == {s.timestamp : s \in Found}

\* remove was called with filters alone: no snapshot set, no after, no before
PlainFilters ==
    /\ ~op.args.snapshots.passed
    /\ op.args.after = NoFloat
    /\ op.args.before = NoFloat

GivenPatterns ==
    IF op.args.filter_str # <<>> THEN op.args.filter_str ELSE op.args.filter_patterns

\* C15: after a remove that returned, the snapshots it matched are not in
\* the index and the others are, in the order they were; without delete
\* the folders are what they were; with delete the folders named after
\* the matched snapshots are gone and every other folder is as it was.
\* Called with filters alone, the matched snapshots are those whose url is
\* one of the patterns.
C15_RemoveFrame ==
    RemoveReturned =>
        LET pre == hist.preIndex
            Stays(s) == s.url \notin FoundUrls
        IN  /\ Found # {}
            /\ Found \subseteq Range(pre)
            /\ index = SelectSeq(pre, Stays)
            /\ ~op.args.delete => folders = hist.preFolders
            /\ op.args.delete =>
                  /\ DOMAIN folders = DOMAIN hist.preFolders \ FoundDirs
                  /\ \A d \in DOMAIN folders : folders[d] = hist.preFolders[d]
            /\ PlainFilters =>
                  Found = {s \in Range(pre) : s.url \in Range(GivenPatterns)}

\* one of two snapshots was removed with its folder, and other folders stay
C15_Witness ==
    /\ RemoveReturned
    /\ op.args.delete
    /\ Len(hist.preIndex) = 2
    /\ Len(index) = 1
    /\ FoundDirs \subseteq DOMAIN hist.preFolders
    /\ DOMAIN folders # {}
    /\ DOMAIN folders # DOMAIN hist.preFolders

\* remove was called without a snapshot set and with both filter_str and
\* filter_patterns, or with neither
BadFilters ==
    /\ ~op.args.snapshots.passed
    /\ \/ op.args.filter_str # <<>> /\ op.args.filter_patterns # <<>>
       \/ op.args.filter_str = <<>> /\ op.args.filter_patterns = <<>>

\* remove looked for snapshots and found none
NothingFound == hist.called /\ hist.handed = <<>>

\* C16: a remove called without a snapshot set and with both or neither of
\* filter_str and filter_patterns, or one that finds no snapshot, fails,
\* and the index, the search index and the folders are what they were.
\* Called with filters alone it finds none exactly when no url of the index
\* is one of the patterns.
C16_RemoveBadInputNoPartialWork ==
    op.name = "remove" =>
        /\ (BadFilters \/ NothingFound) =>
              /\ op.outcome \in {"error", "exit"}
              /\ index = hist.preIndex
              /\ search = hist.preSearch
              /\ folders = hist.preFolders
        /\ (PlainFilters /\ ~BadFilters
               /\ IndexUrls(hist.preIndex) \cap Range(GivenPatterns) = {})
              => NothingFound /\ op.outcome # "returned"

\* a remove with delete whose pattern matches no snapshot of a collection
\* that has snapshots and folders
C16_Witness ==
    /\ op.name = "remove"
    /\ NothingFound
    /\ op.args.delete
    /\ op.args.filter_patterns = <<3>>
    /\ hist.preIndex # <<>>
    /\ DOMAIN folders # {}
    /\ op.outcome = "exit"

\* C20: a remove called with a snapshot set of the caller's leaves in the
\* index every snapshot outside the set, and leaves its folder; called
\* with an empty set it removes nothing.
C20_RemoveStaysInsideSuppliedSet ==
    (op.name = "remove" /\ op.args.snapshots.passed) =>
        LET inside == Range(op.args.snapshots.rows)
        IN  /\ \A s \in Range(hist.preIndex) \ inside :
                  /\ s \in Range(index)
                  /\ s.timestamp \in DOMAIN hist.preFolders
                        => s.timestamp \in DOMAIN folders
            /\ inside = {} => index = hist.preIndex /\ folders = hist.preFolders

\* the timestamp s read as a number is less than the timestamp t
TsBefore(s, t) == TsValue(s) < TsValue(t)

\* C21: list_snapshots, as remove calls it, with after=A returns only
\* snapshots whose timestamp is later than A, with before=B only snapshots
\* whose timestamp is earlier than B, and with both, over the whole index,
\* exactly the snapshots in between that match the filter patterns.
C21_AfterBeforeWindow ==
    (op.name = "remove" /\ hist.called) =>
        LET lo == op.args.after
            hi == op.args.before
            InWindow(s) == /\ TsBefore(lo[1], s.timestamp)
                           /\ TsBefore(s.timestamp, hi[1])
                           /\ s.url \in Range(GivenPatterns)
        IN  /\ lo # NoFloat => \A s \in Found : TsBefore(lo[1], s.timestamp)
            /\ hi # NoFloat => \A s \in Found : TsBefore(s.timestamp, hi[1])
            /\ (lo # NoFloat /\ hi # NoFloat /\ ~op.args.snapshots.passed)
                  => Found = {s \in Range(hist.preIndex) : InWindow(s)}

----------------------------------------------------------------------------
(* The index invariant, checked under Spec. *)

----------------------------------------------------------------------------
(* Properties of init and of the repair, checked under SpecInit. *)

\* C8: no operation ends by asking the process to exit.
C8_NeverExitsProcess == op.outcome # "exit"

\* init went past its entry check
InitRan == op.name = "init" /\ op.outcome \in {"returned", "error"}

PreMisplaced == {d \in DOMAIN hist.preFolders : Misplaced(hist.preFolders, d)}

PreDest(d) == hist.preFolders[d].meta.timestamp

\* C9: after the repair every folder whose name differed from its
\* metadata's timestamp is either renamed to that timestamp, content
\* unchanged, and reported in fixed, or reported with the name it wanted
\* in unfixable and left as it was.  It is renamed when no folder had the
\* name and no other folder wanted it, and its old name is then free
\* unless another folder wanted that; it is unfixable when a folder that
\* stays had the name, and that folder is as it was.  Folders that were
\* well placed are untouched, and with nothing fixed the folders are
\* exactly what they were.
C9_RepairRenamesOrReportsConflict ==
    InitRan =>
        LET pre == hist.preFolders
            IsFixed(d) == <<d, PreDest(d)>> \in hist.fixed
            IsCant(d) == <<d, PreDest(d)>> \in hist.cant_fix
        IN  /\ \A d \in PreMisplaced :
                  /\ IsFixed(d) # IsCant(d)
                  /\ IsFixed(d) => /\ PreDest(d) \in DOMAIN folders
                                    /\ folders[PreDest(d)] = pre[d]
                  /\ IsCant(d) => d \in DOMAIN folders /\ folders[d] = pre[d]
                  /\ (/\ PreDest(d) \notin DOMAIN pre
                      /\ \A e \in PreMisplaced \ {d} : PreDest(e) # PreDest(d))
                        => /\ IsFixed(d)
                           /\ \/ d \notin DOMAIN folders
                              \/ \E e \in PreMisplaced : PreDest(e) = d
                  /\ (PreDest(d) \in DOMAIN pre /\ PreDest(d) \notin PreMisplaced)
                        => IsCant(d) /\ folders[PreDest(d)] = pre[PreDest(d)]
            /\ hist.fixed \cup hist.cant_fix \subseteq {<<d, PreDest(d)>> : d \in PreMisplaced}
            /\ \A d \in DOMAIN pre \ PreMisplaced : d \in DOMAIN folders /\ folders[d] = pre[d]
            /\ hist.fixed = {} => folders = pre

\* folder 100.5, whose metadata says 100.0, was renamed while folder 101 stayed
C9_Witness ==
    /\ InitRan
    /\ DOMAIN hist.preFolders = {FloatStr(1005), NatStr(101)}
    /\ hist.fixed = {<<FloatStr(1005), FloatStr(1000)>>}
    /\ DOMAIN folders = {FloatStr(1000), NatStr(101)}
    /\ folders[FloatStr(1000)] = hist.preFolders[FloatStr(1005)]

\* the folders no snapshot of the index init started from is named after,
\* and whose metadata parses
ParsableOrphans ==
    {d \in DOMAIN folders :
        folders[d].meta.state = "ok" /\ d \notin IndexTimestamps(hist.preIndex)}

\* C10: once init has run, every orphaned folder whose metadata parses has
\* an index entry for the url of its metadata.
C10_OrphansIndexedAfterInit ==
    InitRan => \A d \in ParsableOrphans : folders[d].meta.url \in IndexUrls(index)

====
